---- MODULE Spec2Model ----
(***************************************************************************)
(* The browser-side pages of the task manager (dashboard, task detail,     *)
(* admin panel, home) as one state machine: the mounted page's component   *)
(* state, the session, the requests in flight and the backend they talk    *)
(* to.  A request is issued by a handler, handled by the backend at some   *)
(* later moment, and its response is delivered to the handler's            *)
(* continuation at some still later moment, in any order.                  *)
(***************************************************************************)
EXTENDS Integers, Sequences, FiniteSets, TLC

\* ------------------------------------------------------------------ bounds
\* mutations the user starts (create, save, status change, delete, promote)
MaxMutations == 1
\* longest title the user types
MaxTitleLen == 1
\* field-editing events (typing, selecting a priority or a filter)
MaxTyping == 1
\* repeated submissions (double clicks) of a call that is still in flight,
\* in the runs where the user makes them
MaxRepeats == 1

\* longest fetched list the filter is applied to
MaxListLen == 3

\* ------------------------------------------------------------------ values
Statuses == {"pending", "in_progress", "completed"}
Priorities == {"low", "medium", "high"}
Filters == {"all"} \cup Statuses
Roles == {"user", "admin"}
TitleChars == {" ", "a", "b"}
Titles == UNION {[1..n -> TitleChars] : n \in 0..MaxTitleLen}
Descriptions == {"", "d"}
DueDates == {"", "2026-01-01"}

\* null / undefined of an optional object: the empty sequence; a present
\* object x is <<x>>
Null == <<>>
Some(x) == <<x>>

\* what `error.response?.data?.error` evaluates to: undefined when the chain
\* breaks (no response, no body, no error field), else the backend's string
Undefined == "<undefined>"
ErrBodies == {Undefined, "", "Task error"}

\* JavaScript truthiness of a string-or-undefined value
Truthy(s) == s # Undefined /\ s # ""

\* String.prototype.trim on a sequence of characters
RECURSIVE TrimStart(_)
TrimStart(s) ==
  IF s = <<>> THEN s
  ELSE IF Head(s) = " " THEN TrimStart(Tail(s)) ELSE s

RECURSIVE TrimEnd(_)
TrimEnd(s) ==
  IF s = <<>> THEN s
  ELSE IF s[Len(s)] = " " THEN TrimEnd(SubSeq(s, 1, Len(s) - 1)) ELSE s

Trim(s) == TrimEnd(TrimStart(s))

TitleEmptyUntrimmed(t) == t = <<>>

\* `!title.trim()`: the trimmed title is the empty string
TitleMissing(t) == Trim(t) = <<>>

\* Array.prototype.filter
RECURSIVE SelectSeqBy(_, _)
SelectSeqBy(s, st) ==
  IF s = <<>> THEN <<>>
  ELSE IF Head(s).status = st THEN <<Head(s)>> \o SelectSeqBy(Tail(s), st)
       ELSE SelectSeqBy(Tail(s), st)

\* ------------------------------------------------------------------ state
VARIABLES
  \* session (AuthContext) and client-local storage
  user, authLoading, token,
  \* router
  page, inst, taskId,
  \* dashboard component state
  tasks, title, description, priority, dueDate, error, tasksLoading,
  showCreateForm, filterStatus, showEditModal, editingTask,
  editTitle, editDescription, editPriority, editDueDate,
  \* task-detail component state
  task, loading, isEditing,
  \* admin component state
  users, activeTab, dataLoading,
  \* requests in flight
  net, nreq, ntyped, nmut, nrep, failed, late,
  \* backend
  srvTasks, srvRole, srvNextId, srvTokenOk

session == <<user, authLoading, token>>
router == <<page, inst, taskId>>
drafts == <<title, description, priority, dueDate>>
editBuffers == <<editTitle, editDescription, editPriority, editDueDate>>
dashOnly == <<tasksLoading, showCreateForm, filterStatus, showEditModal, editingTask>>
detailOnly == <<task, loading, isEditing>>
adminOnly == <<users, activeTab, dataLoading>>
component == <<tasks, drafts, error, dashOnly, editBuffers, detailOnly, adminOnly>>
server == <<srvTasks, srvRole, srvNextId, srvTokenOk>>
history == <<ntyped, nmut, nrep, failed, late>>
vars == <<session, router, component, net, nreq, history, server>>

\* ------------------------------------------------------------------ requests
\* api.interceptors.request.use: the header a request leaves with, given what
\* localStorage.getItem('token') returned (Null, or <<string>>)
AuthHeaderUnconditional(tok) ==
  <<"Bearer", IF tok # Null THEN tok[1] ELSE "null">>

AuthHeader(tok) ==
  IF tok # Null /\ Truthy(tok[1]) THEN <<"Bearer", tok[1]>> ELSE <<>>

NoResp == [ok |-> FALSE, status |-> 0, err |-> Undefined, data |-> <<>>, isNull |-> FALSE]

\* one call through the axios instance: the request as it leaves the client.
\* src is the handler whose continuation awaits it, own the component
\* instance that handler's closure belongs to, tok the stored token read by
\* the interceptor, grp the Promise.all partner (0: none).  why records the
\* call whose continuation issued the request (Null: an event or an effect)
Request(kind, src, own, id, data, grp) ==
  [kind |-> kind, src |-> src, inst |-> own, id |-> id, data |-> data,
   tok |-> token, hdr |-> AuthHeader(token), grp |-> grp,
   phase |-> "sent", resp |-> NoResp, why |-> Null]

\* net after the requests of the sequence ms have been issued
Issued(ms) ==
  [i \in DOMAIN net \cup ((nreq + 1)..(nreq + Len(ms))) |->
     IF i \in DOMAIN net THEN net[i] ELSE ms[i - nreq]]

Issue(ms) == /\ net' = Issued(ms)
             /\ nreq' = nreq + Len(ms)

\* the call a continuation belongs to, as the requests it issues record it
Cause(m) ==
  Some([src |-> net[m].src, id |-> net[m].id, data |-> net[m].data,
        resp |-> net[m].resp])

\* a delivered response leaves the wire; the requests ms its continuation
\* issues enter it
Consume(ids, ms) ==
  /\ net' = [i \in (DOMAIN net \ ids) \cup ((nreq + 1)..(nreq + Len(ms))) |->
               IF i \in DOMAIN net THEN net[i]
               ELSE [ms[i - nreq] EXCEPT !.why = Cause(CHOOSE m \in ids : TRUE)]]
  /\ nreq' = nreq + Len(ms)

\* taskAPI / adminAPI payloads
CreatePayloadWithStatus ==
  [title |-> title, description |-> description, priority |-> priority,
   due_date |-> dueDate, status |-> "pending"]

CreatePayload ==
  [title |-> title, description |-> description, priority |-> priority,
   due_date |-> dueDate]

EditPayloadWithStatus ==
  [title |-> editTitle, description |-> editDescription,
   priority |-> editPriority, due_date |-> editDueDate, status |-> "pending"]

EditPayload ==
  [title |-> editTitle, description |-> editDescription,
   priority |-> editPriority, due_date |-> editDueDate]

StatusPayloadWithEdits(newStatus) ==
  [status |-> newStatus, title |-> editTitle, description |-> editDescription,
   priority |-> editPriority, due_date |-> editDueDate]

StatusPayload(newStatus) == [status |-> newStatus]

NoPayload == [none |-> TRUE]

ErrorMessageNoFallback(resp, fallback) == resp.err

\* `error.response?.data?.error || fallback`
ErrorMessage(resp, fallback) == IF Truthy(resp.err) THEN resp.err ELSE fallback

\* `response.data || []`
DataOrEmpty(resp) == IF resp.isNull THEN <<>> ELSE resp.data

\* ------------------------------------------------------------------ backend
\* The REST collaborator of section 6: bearer authentication, tasks scoped
\* to the caller, partial update, admin-only operations.
SessionUserId == 1
OtherUserId == 2
ValidToken == "t1"

InitTask(i, owner, t) ==
  [id |-> i, user_id |-> owner, title |-> t, description |-> "d",
   status |-> "in_progress", priority |-> "high", due_date |-> "2026-01-01",
   created_at |-> i]

TaskFields == {"title", "description", "status", "priority", "due_date"}

\* PUT /tasks/{id}: the fields present in the payload replace the task's
Merge(t, data) ==
  [f \in DOMAIN t |-> IF f \in DOMAIN data /\ f \in TaskFields THEN data[f] ELSE t[f]]

Authenticated(m) == srvTokenOk /\ m.hdr = <<"Bearer", ValidToken>>

RECURSIVE OwnedBy(_, _)
OwnedBy(s, u) ==
  IF s = <<>> THEN <<>>
  ELSE IF Head(s).user_id = u THEN <<Head(s)>> \o OwnedBy(Tail(s), u)
       ELSE OwnedBy(Tail(s), u)

RECURSIVE RemoveId(_, _)
RemoveId(s, i) ==
  IF s = <<>> THEN <<>>
  ELSE IF Head(s).id = i THEN RemoveId(Tail(s), i)
       ELSE <<Head(s)>> \o RemoveId(Tail(s), i)

HasTask(i, u) == \E k \in 1..Len(srvTasks) : srvTasks[k].id = i /\ srvTasks[k].user_id = u
HasAnyTask(i) == \E k \in 1..Len(srvTasks) : srvTasks[k].id = i
TaskOf(i) == srvTasks[CHOOSE k \in 1..Len(srvTasks) : srvTasks[k].id = i]

UserList == [k \in 1..2 |-> [id |-> k, role |-> srvRole[k]]]

Answer(m, resp) ==
  net' = [net EXCEPT ![m] = [@ EXCEPT !.phase = "answered", !.resp = resp]]

Ok(data, isNull) ==
  [ok |-> TRUE, status |-> 200, err |-> Undefined, data |-> data, isNull |-> isNull]

Fail(status, err) ==
  [ok |-> FALSE, status |-> status, err |-> err, data |-> <<>>, isNull |-> FALSE]

IsAdminKind(k) == k \in {"adminUsers", "adminTasks", "promote", "adminDelete"}

\* the status the backend refuses the request with, 0 when it accepts it
Refusal(m) ==
  LET r == net[m] IN
  IF ~Authenticated(r) THEN 401
  ELSE IF IsAdminKind(r.kind) /\ srvRole[SessionUserId] # "admin" THEN 403
  ELSE IF r.kind = "create" /\ r.data.title = <<>> THEN 400
  ELSE IF r.kind \in {"getById", "update", "delete"} /\ ~HasTask(r.id, SessionUserId) THEN 404
  ELSE IF r.kind = "update" /\ "title" \in DOMAIN r.data /\ r.data.title = <<>> THEN 400
  ELSE IF r.kind = "adminDelete" /\ ~HasAnyTask(r.id) THEN 404
  ELSE IF r.kind = "promote" /\ r.id \notin DOMAIN srvRole THEN 404
  ELSE 0

\* the backend refuses the request and says why (or not)
ServerRefuse(m) ==
  /\ m \in DOMAIN net /\ net[m].phase = "sent"
  /\ Refusal(m) # 0
  /\ \E e \in ErrBodies : Answer(m, Fail(Refusal(m), e))
  /\ failed' = TRUE
  /\ UNCHANGED <<session, router, component, nreq, ntyped, nmut, nrep, late, server>>

\* transport failure: no response reaches the client
NetworkError(m) ==
  /\ m \in DOMAIN net /\ net[m].phase = "sent"
  /\ Answer(m, Fail(0, Undefined))
  /\ failed' = TRUE
  /\ UNCHANGED <<session, router, component, nreq, ntyped, nmut, nrep, late, server>>

\* the backend carries the request out
ServerAccept(m) ==
  /\ m \in DOMAIN net /\ net[m].phase = "sent"
  /\ Refusal(m) = 0
  /\ LET r == net[m] IN
     CASE r.kind = "getAll" ->
            LET own == OwnedBy(srvTasks, SessionUserId) IN
            /\ \E n \in (IF own = <<>> THEN BOOLEAN ELSE {FALSE}) : Answer(m, Ok(own, n))
            /\ UNCHANGED server
       [] r.kind = "getById" ->
            /\ Answer(m, Ok(<<TaskOf(r.id)>>, FALSE))
            /\ UNCHANGED server
       [] r.kind = "create" ->
            /\ LET t == [id |-> srvNextId, user_id |-> SessionUserId,
                         title |-> r.data.title, description |-> r.data.description,
                         status |-> "pending", priority |-> r.data.priority,
                         due_date |-> r.data.due_date, created_at |-> srvNextId] IN
               /\ srvTasks' = Append(srvTasks, t)
               /\ srvNextId' = srvNextId + 1
               /\ Answer(m, Ok(<<t>>, FALSE))
            /\ UNCHANGED <<srvRole, srvTokenOk>>
       [] r.kind = "update" ->
            /\ srvTasks' = [k \in 1..Len(srvTasks) |->
                             IF srvTasks[k].id = r.id THEN Merge(srvTasks[k], r.data)
                             ELSE srvTasks[k]]
            /\ Answer(m, Ok(<<Merge(TaskOf(r.id), r.data)>>, FALSE))
            /\ UNCHANGED <<srvRole, srvNextId, srvTokenOk>>
       [] r.kind \in {"delete", "adminDelete"} ->
            /\ srvTasks' = RemoveId(srvTasks, r.id)
            /\ Answer(m, Ok(<<>>, FALSE))
            /\ UNCHANGED <<srvRole, srvNextId, srvTokenOk>>
       [] r.kind = "adminUsers" ->
            /\ Answer(m, Ok(UserList, FALSE))
            /\ UNCHANGED server
       [] r.kind = "adminTasks" ->
            /\ \E n \in (IF srvTasks = <<>> THEN BOOLEAN ELSE {FALSE}) : Answer(m, Ok(srvTasks, n))
            /\ UNCHANGED server
       [] r.kind = "promote" ->
            /\ srvRole' = [srvRole EXCEPT ![r.id] = "admin"]
            /\ Answer(m, Ok(<<>>, FALSE))
            /\ UNCHANGED <<srvTasks, srvNextId, srvTokenOk>>
  /\ UNCHANGED <<session, router, component, nreq, history>>

\* the token expires (or is revoked) at the backend
TokenExpires ==
  /\ srvTokenOk
  /\ srvTokenOk' = FALSE
  /\ UNCHANGED <<session, router, component, net, nreq, history, srvTasks, srvRole, srvNextId>>


\* the backend stops treating the session user as an administrator: the
\* client holds a projection of the role, the backend decides on each call
RoleRevoked ==
  /\ srvRole[SessionUserId] = "admin"
  /\ srvRole' = [srvRole EXCEPT ![SessionUserId] = "user"]
  /\ UNCHANGED <<session, router, component, net, nreq, history, srvTasks, srvNextId, srvTokenOk>>


\* ------------------------------------------------------------------ dashboard
\* a newly mounted component: the useState initial values of the three pages
Fresh ==
  /\ tasks' = <<>>
  /\ title' = <<>> /\ description' = "" /\ priority' = "medium" /\ dueDate' = ""
  /\ error' = ""
  /\ tasksLoading' = TRUE
  /\ showCreateForm' = FALSE
  /\ filterStatus' = "all"
  /\ showEditModal' = FALSE
  /\ editingTask' = Null
  /\ editTitle' = <<>> /\ editDescription' = "" /\ editPriority' = "medium"
  /\ editDueDate' = ""
  /\ task' = Null /\ loading' = TRUE /\ isEditing' = FALSE
  /\ users' = <<>> /\ activeTab' = "users" /\ dataLoading' = TRUE

\* the dashboard renders its content (not the spinner, not null)
DashboardShown == page = "dashboard" /\ ~authLoading /\ user # Null

\* a sequence of tasks in ascending order of id
RECURSIVE InsertById(_, _)
InsertById(t, s) ==
  IF s = <<>> THEN <<t>>
  ELSE IF t.id <= Head(s).id THEN <<t>> \o s
       ELSE <<Head(s)>> \o InsertById(t, Tail(s))

RECURSIVE SortById(_)
SortById(s) == IF s = <<>> THEN <<>> ELSE InsertById(Head(s), SortById(Tail(s)))

\* the filter followed by a sort of the view's own
filteredTasksSorted ==
  SortById(IF filterStatus = "all" THEN tasks ELSE SelectSeqBy(tasks, filterStatus))

filteredTasks ==
  IF filterStatus = "all" THEN tasks ELSE SelectSeqBy(tasks, filterStatus)

\* the statistics counted over the cards the filter leaves
statsOfFiltered ==
  [total |-> Len(filteredTasks),
   pending |-> Len(SelectSeqBy(filteredTasks, "pending")),
   inProgress |-> Len(SelectSeqBy(filteredTasks, "in_progress")),
   completed |-> Len(SelectSeqBy(filteredTasks, "completed"))]

\* the statistics cards of the dashboard
stats ==
  [total |-> Len(tasks),
   pending |-> Len(SelectSeqBy(tasks, "pending")),
   inProgress |-> Len(SelectSeqBy(tasks, "in_progress")),
   completed |-> Len(SelectSeqBy(tasks, "completed"))]

\* the task cards are rendered (not the list spinner)
CardsShown == DashboardShown /\ ~tasksLoading

\* fetchTasks, up to its await: the request it issues
FetchTasksRequest(own) == Request("getAll", "fetchTasks", own, 0, NoPayload, 0)

\* fetchTask (detail) and fetchData (admin), up to their await
FetchTaskRequest(own) == Request("getById", "fetchTask", own, taskId, NoPayload, 0)

FetchDataRequests(own) ==
  <<Request("adminUsers", "fetchData", own, 0, NoPayload, nreq + 2),
    Request("adminTasks", "fetchData", own, 0, NoPayload, nreq + 1)>>

IsAdmin(u) == u # Null /\ u[1].role = "admin"

\* the home page without its role test: every signed-in user goes to the
\* dashboard
RedirectTargetRoleBlind(p, u, al) ==
  IF al THEN p
  ELSE CASE p = "home" -> IF u # Null THEN "dashboard" ELSE "login"
         [] p = "admin" -> IF ~IsAdmin(u) THEN "dashboard" ELSE p
         [] p \in {"dashboard", "detail"} -> IF u = Null THEN "login" ELSE p
         [] OTHER -> p

\* the dashboard's gate left out: it pushes no route
RedirectTargetDashboardOpen(p, u, al) ==
  IF al THEN p
  ELSE CASE p = "home" ->
              IF u # Null THEN (IF u[1].role = "admin" THEN "admin" ELSE "dashboard")
              ELSE "login"
         [] p = "admin" -> IF ~IsAdmin(u) THEN "dashboard" ELSE p
         [] p = "detail" -> IF u = Null THEN "login" ELSE p
         [] OTHER -> p

\* the redirect effect of page p, for session user u and session-loading
\* flag al: the route it pushes, p itself when it pushes none
RedirectTarget(p, u, al) ==
  IF al THEN p
  ELSE CASE p = "home" ->
              IF u # Null THEN (IF u[1].role = "admin" THEN "admin" ELSE "dashboard")
              ELSE "login"
         [] p = "admin" -> IF ~IsAdmin(u) THEN "dashboard" ELSE p
         [] p \in {"dashboard", "detail"} -> IF u = Null THEN "login" ELSE p
         [] OTHER -> p

\* the requests the data effect of page p issues for session user u
EffectRequests(p, u, own) ==
  CASE p = "dashboard" /\ u # Null -> <<FetchTasksRequest(own)>>
    [] p = "detail" /\ u # Null -> <<FetchTaskRequest(own)>>
    [] p = "admin" /\ IsAdmin(u) -> FetchDataRequests(own)
    [] OTHER -> <<>>

\* router.push(p) and the mount of the page's component: its useState
\* initial values and its data effect, for session user u
Push(p, u) ==
  IF p = page
  THEN UNCHANGED <<router, component, net, nreq>>
  ELSE /\ page' = p
       /\ inst' = inst + 1
       /\ UNCHANGED taskId
       /\ Fresh
       /\ Issue(EffectRequests(p, u, inst + 1))

\* the redirect effect of the mounted page runs
RedirectEffect ==
  /\ RedirectTarget(page, user, authLoading) # page
  /\ Push(RedirectTarget(page, user, authLoading), user)
  /\ UNCHANGED <<session, history, server>>

\* AuthContext: the stored token is resolved to a user ("who am I"); a
\* missing or rejected token ends unauthenticated with the token cleared.
\* The data effect of the mounted page runs for the resolved user.
ResolveSession ==
  /\ authLoading
  /\ authLoading' = FALSE
  /\ IF token = <<ValidToken>> /\ srvTokenOk
     THEN /\ user' = Some([id |-> SessionUserId, role |-> srvRole[SessionUserId]])
          /\ UNCHANGED token
     ELSE /\ user' = Null
          /\ token' = Null
  /\ Issue(EffectRequests(page, user', inst))
  /\ UNCHANGED <<router, component, history, server>>

\* AuthContext.logout: token and identity cleared, locally
logout ==
  /\ user' = Null
  /\ token' = Null
  /\ UNCHANGED authLoading

\* the logout button's guard: the page that renders it
LogoutOffered ==
  \/ page = "dashboard" /\ ~authLoading /\ user # Null
  \/ page = "detail" /\ ~authLoading /\ ~loading /\ task # Null
  \/ page = "admin" /\ ~authLoading /\ IsAdmin(user)

\* the session cleared, the push to the login route forgotten
handleLogoutStays ==
  /\ LogoutOffered
  /\ logout
  /\ UNCHANGED <<router, component, net, nreq, history, server>>

\* AuthContext.logout, then router.push('/login')
handleLogout ==
  /\ \/ page = "dashboard" /\ ~authLoading /\ user # Null
     \/ page = "detail" /\ ~authLoading /\ ~loading /\ task # Null
     \/ page = "admin" /\ ~authLoading /\ IsAdmin(user)
  /\ logout
  /\ Push("login", Null)
  /\ UNCHANGED <<history, server>>

Typing ==
  ntyped < MaxTyping /\ ntyped' = ntyped + 1 /\ UNCHANGED <<nmut, nrep, failed, late>>

\* the same call (handler, component, target, payload) is the newest
\* request and still unanswered: a double click
InFlight(r) ==
  /\ nreq \in DOMAIN net /\ net[nreq].phase = "sent"
  /\ net[nreq].src = r.src /\ net[nreq].inst = r.inst
  /\ net[nreq].id = r.id /\ net[nreq].data = r.data

\* a handler that ignores a call already in flight
MutatingDeduplicated(r) ==
  /\ \A m \in DOMAIN net :
       ~(net[m].src = r.src /\ net[m].id = r.id /\ net[m].data = r.data)
  /\ nmut < MaxMutations /\ nmut' = nmut + 1
  /\ UNCHANGED <<ntyped, nrep, failed, late>>
  /\ Issue(<<r>>)

\* a handler is invoked and issues request r: a new submission, or the
\* repetition of one whose response has not come back (nrep: the double
\* clicks the user still makes)
Mutating(r) ==
  /\ IF nmut < MaxMutations
     THEN nmut' = nmut + 1 /\ UNCHANGED nrep
     ELSE InFlight(r) /\ nrep > 0 /\ nrep' = nrep - 1 /\ UNCHANGED nmut
  /\ UNCHANGED <<ntyped, failed, late>>
  /\ Issue(<<r>>)

\* onClick of the "Create New Task" / "Hide Form" button
ToggleCreateForm ==
  /\ DashboardShown
  /\ showCreateForm' = ~showCreateForm
  /\ UNCHANGED <<session, router, tasks, drafts, error, tasksLoading, filterStatus,
                 showEditModal, editingTask, editBuffers, detailOnly, adminOnly,
                 net, nreq, history, server>>

\* onClick of the create form's Cancel button
CancelCreate ==
  /\ DashboardShown /\ showCreateForm
  /\ showCreateForm' = FALSE
  /\ UNCHANGED <<session, router, tasks, drafts, error, tasksLoading, filterStatus,
                 showEditModal, editingTask, editBuffers, detailOnly, adminOnly,
                 net, nreq, history, server>>

\* onChange of the create form's inputs
SetTitle(v) ==
  /\ DashboardShown /\ showCreateForm /\ Typing
  /\ title' = v
  /\ UNCHANGED <<session, router, tasks, description, priority, dueDate, error,
                 dashOnly, editBuffers, detailOnly, adminOnly, net, nreq, server>>

SetDescription(v) ==
  /\ DashboardShown /\ showCreateForm /\ Typing
  /\ description' = v
  /\ UNCHANGED <<session, router, tasks, title, priority, dueDate, error,
                 dashOnly, editBuffers, detailOnly, adminOnly, net, nreq, server>>

SetPriority(v) ==
  /\ DashboardShown /\ showCreateForm /\ Typing
  /\ priority' = v
  /\ UNCHANGED <<session, router, tasks, title, description, dueDate, error,
                 dashOnly, editBuffers, detailOnly, adminOnly, net, nreq, server>>

SetDueDate(v) ==
  /\ DashboardShown /\ showCreateForm /\ Typing
  /\ dueDate' = v
  /\ UNCHANGED <<session, router, tasks, title, description, priority, error,
                 dashOnly, editBuffers, detailOnly, adminOnly, net, nreq, server>>

\* onClick of a filter button
SetFilterStatus(v) ==
  /\ DashboardShown /\ Typing
  /\ filterStatus' = v
  /\ UNCHANGED <<session, router, tasks, drafts, error, tasksLoading, showCreateForm,
                 showEditModal, editingTask, editBuffers, detailOnly, adminOnly,
                 net, nreq, server>>

\* handleCreateTask, up to its await
handleCreateTask ==
  /\ DashboardShown /\ showCreateForm
  /\ IF TitleMissing(title)
     THEN /\ error' = "Title is required"
          /\ UNCHANGED <<net, nreq, history>>
     ELSE /\ error' = ""
          /\ Mutating(Request("create", "handleCreateTask", inst, 0, CreatePayload, 0))
  /\ UNCHANGED <<session, router, tasks, drafts, dashOnly, editBuffers, detailOnly,
                 adminOnly, server>>

\* handleOpenEdit(task), from a rendered task card
handleOpenEdit(k) ==
  /\ CardsShown /\ k \in 1..Len(filteredTasks)
  /\ LET t == filteredTasks[k] IN
     /\ editingTask' = Some(t)
     /\ editTitle' = t.title
     /\ editDescription' = t.description
     /\ editPriority' = t.priority
     /\ editDueDate' = t.due_date
     /\ showEditModal' = TRUE
  /\ UNCHANGED <<session, router, tasks, drafts, error, tasksLoading, showCreateForm,
                 filterStatus, detailOnly, adminOnly, net, nreq, history, server>>

\* the edit modal is rendered
ModalShown == DashboardShown /\ showEditModal /\ editingTask # Null

\* onClick of the modal's Cancel button
CancelEdit ==
  /\ ModalShown
  /\ showEditModal' = FALSE
  /\ editingTask' = Null
  /\ UNCHANGED <<session, router, tasks, drafts, error, tasksLoading, showCreateForm,
                 filterStatus, editBuffers, detailOnly, adminOnly, net, nreq, history,
                 server>>

\* handleSaveEdit, up to its await
handleSaveEdit ==
  /\ ModalShown
  /\ IF TitleMissing(editTitle)
     THEN /\ error' = "Title is required"
          /\ UNCHANGED <<net, nreq, history>>
     ELSE /\ error' = ""
          /\ Mutating(Request("update", "handleSaveEdit", inst, editingTask[1].id,
                             EditPayload, 0))
  /\ UNCHANGED <<session, router, tasks, drafts, dashOnly, editBuffers, detailOnly,
                 adminOnly, server>>

\* handleUpdateStatus(taskId, newStatus), from a card's status selector
handleUpdateStatus(k, newStatus) ==
  /\ CardsShown /\ k \in 1..Len(filteredTasks)
  /\ newStatus # filteredTasks[k].status
  /\ Mutating(Request("update", "handleUpdateStatus", inst, filteredTasks[k].id,
                     StatusPayload(newStatus), 0))
  /\ UNCHANGED <<session, router, component, server>>

\* handleDeleteTask(taskId), from a card, the confirm dialog accepted
handleDeleteTask(k) ==
  /\ CardsShown /\ k \in 1..Len(filteredTasks)
  /\ Mutating(Request("delete", "handleDeleteTask", inst, filteredTasks[k].id,
                     NoPayload, 0))
  /\ UNCHANGED <<session, router, component, server>>


\* onChange of the edit inputs (the dashboard's modal, the detail page's form)
EditFormShown ==
  \/ ModalShown
  \/ page = "detail" /\ ~authLoading /\ ~loading /\ task # Null /\ isEditing

\* the edit written through to the fetched objects
SetEditTitleInPlace(v) ==
  /\ EditFormShown /\ Typing
  /\ editTitle' = v
  /\ tasks' = [k \in 1..Len(tasks) |->
                IF editingTask # Null /\ tasks[k].id = editingTask[1].id
                THEN [tasks[k] EXCEPT !.title = v] ELSE tasks[k]]
  /\ task' = IF task # Null THEN Some([task[1] EXCEPT !.title = v]) ELSE task
  /\ UNCHANGED <<session, router, drafts, error, dashOnly, editDescription,
                 editPriority, editDueDate, loading, isEditing, adminOnly, net, nreq,
                 server>>

SetEditTitle(v) ==
  /\ EditFormShown /\ Typing
  /\ editTitle' = v
  /\ UNCHANGED <<session, router, tasks, drafts, error, dashOnly, editDescription,
                 editPriority, editDueDate, detailOnly, adminOnly, net, nreq, server>>

SetEditDescription(v) ==
  /\ EditFormShown /\ Typing
  /\ editDescription' = v
  /\ UNCHANGED <<session, router, tasks, drafts, error, dashOnly, editTitle,
                 editPriority, editDueDate, detailOnly, adminOnly, net, nreq, server>>

SetEditPriority(v) ==
  /\ EditFormShown /\ Typing
  /\ editPriority' = v
  /\ UNCHANGED <<session, router, tasks, drafts, error, dashOnly, editTitle,
                 editDescription, editDueDate, detailOnly, adminOnly, net, nreq, server>>

SetEditDueDate(v) ==
  /\ EditFormShown /\ Typing
  /\ editDueDate' = v
  /\ UNCHANGED <<session, router, tasks, drafts, error, dashOnly, editTitle,
                 editDescription, editPriority, detailOnly, adminOnly, net, nreq, server>>

\* a response has arrived for the continuation of handler src
Arrived(m, src) ==
  /\ m \in DOMAIN net
  /\ net[m].src = src /\ net[m].phase = "answered"

\* every continuation taken for that of the mounted component
LiveAlways(m) == TRUE

\* the continuation's component is still the mounted one: React drops the
\* state updates of an unmounted component
Live(m) == net[m].inst = inst

\* fetchTasks after its await: try / catch / finally
FetchTasksLoaded(resp) ==
  /\ tasks' = DataOrEmpty(resp)
  /\ tasksLoading' = FALSE
  /\ UNCHANGED error

FetchTasksFailed ==
  /\ error' = "Failed to load tasks"
  /\ tasksLoading' = FALSE
  /\ UNCHANGED tasks

fetchTasksDone(m) ==
  /\ Arrived(m, "fetchTasks")
  /\ Consume({m}, <<>>)
  /\ IF Live(m)
     THEN IF net[m].resp.ok THEN FetchTasksLoaded(net[m].resp) ELSE FetchTasksFailed
     ELSE UNCHANGED <<tasks, tasksLoading, error>>
  /\ UNCHANGED <<session, router, drafts, showCreateForm, filterStatus, showEditModal,
                 editingTask, editBuffers, detailOnly, adminOnly, ntyped, nmut, nrep, failed, server>>
  /\ late' = (late \/ ~Live(m))

CreateSucceededKeepsDrafts ==
  /\ showCreateForm' = FALSE
  /\ tasksLoading' = TRUE
  /\ UNCHANGED <<drafts, error>>

\* handleCreateTask after its await, the create accepted: the drafts are
\* reset, the form hidden, and fetchTasks is called
CreateSucceeded ==
  /\ title' = <<>> /\ description' = "" /\ priority' = "medium" /\ dueDate' = ""
  /\ showCreateForm' = FALSE
  /\ tasksLoading' = TRUE
  /\ UNCHANGED error

DashboardNoRefetch(own) == <<>>

\* the requests a dashboard handler issues once its mutation has succeeded
DashboardRefetch(own) == <<FetchTasksRequest(own)>>

handleCreateTaskDone(m) ==
  /\ Arrived(m, "handleCreateTask")
  /\ IF net[m].resp.ok
     THEN /\ Consume({m}, DashboardRefetch(net[m].inst))
          /\ IF Live(m) THEN CreateSucceeded
             ELSE UNCHANGED <<drafts, showCreateForm, tasksLoading, error>>
     ELSE /\ Consume({m}, <<>>)
          /\ IF Live(m) THEN error' = ErrorMessage(net[m].resp, "Failed to create task")
             ELSE UNCHANGED error
          /\ UNCHANGED <<drafts, showCreateForm, tasksLoading>>
  /\ UNCHANGED <<session, router, tasks, filterStatus, showEditModal, editingTask,
                 editBuffers, detailOnly, adminOnly, history, server>>

\* handleSaveEdit after its await, the update accepted
SaveEditSucceeded ==
  /\ showEditModal' = FALSE
  /\ editingTask' = Null
  /\ tasksLoading' = TRUE
  /\ UNCHANGED error

handleSaveEditDone(m) ==
  /\ Arrived(m, "handleSaveEdit")
  /\ IF net[m].resp.ok
     THEN /\ Consume({m}, DashboardRefetch(net[m].inst))
          /\ IF Live(m) THEN SaveEditSucceeded
             ELSE UNCHANGED <<showEditModal, editingTask, tasksLoading, error>>
     ELSE /\ Consume({m}, <<>>)
          /\ IF Live(m) THEN error' = ErrorMessage(net[m].resp, "Failed to update task")
             ELSE UNCHANGED error
          /\ UNCHANGED <<showEditModal, editingTask, tasksLoading>>
  /\ UNCHANGED <<session, router, tasks, drafts, showCreateForm, filterStatus,
                 editBuffers, detailOnly, adminOnly, history, server>>

\* handleUpdateStatus / handleDeleteTask after their await
DashboardMutationDone(m, fallback) ==
  /\ IF net[m].resp.ok
     THEN /\ Consume({m}, DashboardRefetch(net[m].inst))
          /\ tasksLoading' = IF Live(m) THEN TRUE ELSE tasksLoading
          /\ UNCHANGED error
     ELSE /\ Consume({m}, <<>>)
          /\ error' = IF Live(m) THEN fallback ELSE error
          /\ UNCHANGED tasksLoading
  /\ UNCHANGED <<session, router, tasks, drafts, showCreateForm, filterStatus,
                 showEditModal, editingTask, editBuffers, detailOnly, adminOnly,
                 history, server>>

handleUpdateStatusDone(m) ==
  /\ Arrived(m, "handleUpdateStatus")
  /\ DashboardMutationDone(m, "Failed to update task status")

handleDeleteTaskDone(m) ==
  /\ Arrived(m, "handleDeleteTask")
  /\ DashboardMutationDone(m, "Failed to delete task")


\* ------------------------------------------------------------------ task detail
\* the detail page renders the task card (not the spinner, not "not found")
DetailShown == page = "detail" /\ ~authLoading /\ ~loading /\ task # Null

\* the "not found" screen
DetailMissing == page = "detail" /\ ~authLoading /\ ~loading /\ task = Null

\* fetchTask after its await: try / catch / finally
FetchTaskLoaded(resp) ==
  /\ task' = Some(resp.data[1])
  /\ editTitle' = resp.data[1].title
  /\ editDescription' = resp.data[1].description
  /\ editPriority' = resp.data[1].priority
  /\ editDueDate' = resp.data[1].due_date
  /\ loading' = FALSE
  /\ UNCHANGED error

\* the rejection not caught: no message is set
FetchTaskFailedUncaught ==
  /\ loading' = FALSE
  /\ UNCHANGED <<error, task, editBuffers>>

FetchTaskFailed ==
  /\ error' = "Failed to load task details"
  /\ loading' = FALSE
  /\ UNCHANGED <<task, editBuffers>>

fetchTaskDone(m) ==
  /\ Arrived(m, "fetchTask")
  /\ Consume({m}, <<>>)
  /\ IF Live(m)
     THEN IF net[m].resp.ok THEN FetchTaskLoaded(net[m].resp) ELSE FetchTaskFailed
     ELSE UNCHANGED <<task, editBuffers, loading, error>>
  /\ UNCHANGED <<session, router, tasks, drafts, dashOnly, isEditing, adminOnly,
                 ntyped, nmut, nrep, failed, server>>
  /\ late' = (late \/ ~Live(m))

\* onClick of the edit button / of the edit form's Cancel button
StartEditing ==
  /\ DetailShown /\ ~isEditing
  /\ isEditing' = TRUE
  /\ UNCHANGED <<session, router, tasks, drafts, error, dashOnly, editBuffers, task,
                 loading, adminOnly, net, nreq, history, server>>

CancelEditing ==
  /\ DetailShown /\ isEditing
  /\ isEditing' = FALSE
  /\ UNCHANGED <<session, router, tasks, drafts, error, dashOnly, editBuffers, task,
                 loading, adminOnly, net, nreq, history, server>>

\* the detail page's handleSaveEdit, up to its await
handleSaveEditDetail ==
  /\ DetailShown /\ isEditing
  /\ IF TitleMissing(editTitle)
     THEN /\ error' = "Title is required"
          /\ UNCHANGED <<net, nreq, history>>
     ELSE /\ error' = ""
          /\ Mutating(Request("update", "detail.handleSaveEdit", inst, task[1].id,
                             EditPayload, 0))
  /\ UNCHANGED <<session, router, tasks, drafts, dashOnly, editBuffers, detailOnly,
                 adminOnly, server>>

\* the requests a detail handler issues once its update has succeeded
DetailRefetch(own) == <<FetchTaskRequest(own)>>

handleSaveEditDetailDone(m) ==
  /\ Arrived(m, "detail.handleSaveEdit")
  /\ IF net[m].resp.ok
     THEN /\ Consume({m}, DetailRefetch(net[m].inst))
          /\ isEditing' = IF Live(m) THEN FALSE ELSE isEditing
          /\ loading' = IF Live(m) THEN TRUE ELSE loading
          /\ UNCHANGED error
     ELSE /\ Consume({m}, <<>>)
          /\ error' = IF Live(m) THEN ErrorMessage(net[m].resp, "Failed to update task")
                      ELSE error
          /\ UNCHANGED <<isEditing, loading>>
  /\ UNCHANGED <<session, router, tasks, drafts, dashOnly, editBuffers, task, adminOnly,
                 history, server>>

\* the detail page's handleUpdateStatus(newStatus)
handleUpdateStatusDetail(newStatus) ==
  /\ DetailShown
  /\ newStatus # task[1].status
  /\ Mutating(Request("update", "detail.handleUpdateStatus", inst, task[1].id,
                     StatusPayload(newStatus), 0))
  /\ UNCHANGED <<session, router, component, server>>

handleUpdateStatusDetailDone(m) ==
  /\ Arrived(m, "detail.handleUpdateStatus")
  /\ IF net[m].resp.ok
     THEN /\ Consume({m}, DetailRefetch(net[m].inst))
          /\ loading' = IF Live(m) THEN TRUE ELSE loading
          /\ UNCHANGED error
     ELSE /\ Consume({m}, <<>>)
          /\ error' = IF Live(m) THEN "Failed to update status" ELSE error
          /\ UNCHANGED loading
  /\ UNCHANGED <<session, router, tasks, drafts, dashOnly, editBuffers, task, isEditing,
                 adminOnly, history, server>>

\* the detail page's handleDeleteTask, the confirm dialog accepted
handleDeleteTaskDetail ==
  /\ DetailShown
  /\ Mutating(Request("delete", "detail.handleDeleteTask", inst, task[1].id,
                     NoPayload, 0))
  /\ UNCHANGED <<session, router, component, server>>

handleDeleteTaskDetailDone(m) ==
  /\ Arrived(m, "detail.handleDeleteTask")
  /\ IF net[m].resp.ok
     THEN IF page = "dashboard"
          THEN /\ Consume({m}, <<>>)
               /\ UNCHANGED <<router, component>>
          ELSE /\ page' = "dashboard"
               /\ inst' = inst + 1
               /\ UNCHANGED taskId
               /\ Fresh
               /\ Consume({m}, EffectRequests("dashboard", user, inst + 1))
     ELSE /\ Consume({m}, <<>>)
          /\ error' = IF Live(m) THEN "Failed to delete task" ELSE error
          /\ UNCHANGED <<router, tasks, drafts, dashOnly, editBuffers, detailOnly,
                         adminOnly>>
  /\ UNCHANGED <<session, history, server>>

\* ------------------------------------------------------------------ admin
\* the admin page renders the panel (not the spinner, not null)
AdminShown == page = "admin" /\ ~authLoading /\ IsAdmin(user)

\* onClick of the tab buttons
SetActiveTab(v) ==
  /\ AdminShown /\ v # activeTab
  /\ activeTab' = v
  /\ UNCHANGED <<session, router, tasks, drafts, error, dashOnly, editBuffers,
                 detailOnly, users, dataLoading, net, nreq, history, server>>

\* fetchData after `await Promise.all([...])`: m is the users request, its
\* partner the tasks request.  Both fulfilled: the try block runs.  One
\* rejected: the catch block runs as soon as the rejection arrives and the
\* other response is dropped.
FetchDataLoaded(usersRes, tasksRes) ==
  /\ users' = DataOrEmpty(usersRes)
  /\ tasks' = DataOrEmpty(tasksRes)
  /\ dataLoading' = FALSE
  /\ UNCHANGED error

FetchDataFailed ==
  /\ error' = "Failed to load data"
  /\ dataLoading' = FALSE
  /\ UNCHANGED <<users, tasks>>

\* the two lists awaited one by one: each is applied when its own request
\* has succeeded
fetchDataDoneSeparately(m) ==
  /\ m \in DOMAIN net /\ net[m].src = "fetchData" /\ net[m].kind = "adminUsers"
  /\ LET o == net[m].grp
         okU == net[m].phase = "answered" /\ net[m].resp.ok
         okT == net[o].phase = "answered" /\ net[o].resp.ok
         oneBad == \/ net[m].phase = "answered" /\ ~net[m].resp.ok
                   \/ net[o].phase = "answered" /\ ~net[o].resp.ok
     IN /\ (okU /\ okT) \/ oneBad
        /\ Consume({m, o}, <<>>)
        /\ IF Live(m)
           THEN /\ users' = IF okU THEN DataOrEmpty(net[m].resp) ELSE users
                /\ tasks' = IF okT THEN DataOrEmpty(net[o].resp) ELSE tasks
                /\ error' = IF okU /\ okT THEN error ELSE "Failed to load data"
                /\ dataLoading' = FALSE
           ELSE UNCHANGED <<users, tasks, dataLoading, error>>
  /\ UNCHANGED <<session, router, drafts, dashOnly, editBuffers, detailOnly, activeTab,
                 ntyped, nmut, nrep, failed, server>>
  /\ late' = (late \/ ~Live(m))

fetchDataDone(m) ==
  /\ m \in DOMAIN net /\ net[m].src = "fetchData" /\ net[m].kind = "adminUsers"
  /\ LET o == net[m].grp
         bothOk == /\ net[m].phase = "answered" /\ net[m].resp.ok
                   /\ net[o].phase = "answered" /\ net[o].resp.ok
         oneBad == \/ net[m].phase = "answered" /\ ~net[m].resp.ok
                   \/ net[o].phase = "answered" /\ ~net[o].resp.ok
     IN /\ bothOk \/ oneBad
        /\ Consume({m, o}, <<>>)
        /\ IF Live(m)
           THEN IF bothOk THEN FetchDataLoaded(net[m].resp, net[o].resp)
                ELSE FetchDataFailed
           ELSE UNCHANGED <<users, tasks, dataLoading, error>>
  /\ UNCHANGED <<session, router, drafts, dashOnly, editBuffers, detailOnly, activeTab,
                 ntyped, nmut, nrep, failed, server>>
  /\ late' = (late \/ ~Live(m))

\* the Promote button offered on every row
handlePromoteUserAnyRow(k) ==
  /\ AdminShown /\ activeTab = "users" /\ ~dataLoading
  /\ k \in 1..Len(users)
  /\ Mutating(Request("promote", "handlePromoteUser", inst, users[k].id, NoPayload, 0))
  /\ UNCHANGED <<session, router, component, server>>

\* handlePromoteUser(userId), from a row of the users table whose displayed
\* role is not admin, the confirm dialog accepted
handlePromoteUser(k) ==
  /\ AdminShown /\ activeTab = "users" /\ ~dataLoading
  /\ k \in 1..Len(users) /\ users[k].role # "admin"
  /\ Mutating(Request("promote", "handlePromoteUser", inst, users[k].id, NoPayload, 0))
  /\ UNCHANGED <<session, router, component, server>>

\* the admin page's handleDeleteTask(taskId)
handleDeleteTaskAdmin(k) ==
  /\ AdminShown /\ activeTab = "tasks" /\ ~dataLoading
  /\ k \in 1..Len(tasks)
  /\ Mutating(Request("adminDelete", "admin.handleDeleteTask", inst, tasks[k].id,
                     NoPayload, 0))
  /\ UNCHANGED <<session, router, component, server>>

\* the requests an admin handler issues once its mutation has succeeded
AdminRefetch(own) == FetchDataRequests(own)

\* the refetch moved to a finally block: it follows a failed mutation too
AdminMutationDoneRefetchAlways(m, fallback) ==
  /\ Consume({m}, AdminRefetch(net[m].inst))
  /\ dataLoading' = IF Live(m) THEN TRUE ELSE dataLoading
  /\ error' = IF Live(m) /\ ~net[m].resp.ok THEN fallback ELSE error
  /\ UNCHANGED <<session, router, tasks, drafts, dashOnly, editBuffers, detailOnly,
                 users, activeTab, history, server>>

AdminMutationDone(m, fallback) ==
  /\ IF net[m].resp.ok
     THEN /\ Consume({m}, AdminRefetch(net[m].inst))
          /\ dataLoading' = IF Live(m) THEN TRUE ELSE dataLoading
          /\ UNCHANGED error
     ELSE /\ Consume({m}, <<>>)
          /\ error' = IF Live(m) THEN fallback ELSE error
          /\ UNCHANGED dataLoading
  /\ UNCHANGED <<session, router, tasks, drafts, dashOnly, editBuffers, detailOnly,
                 users, activeTab, history, server>>

handlePromoteUserDone(m) ==
  /\ Arrived(m, "handlePromoteUser")
  /\ AdminMutationDone(m, "Failed to promote user")

handleDeleteTaskAdminDone(m) ==
  /\ Arrived(m, "admin.handleDeleteTask")
  /\ AdminMutationDone(m, "Failed to delete task")

\* ------------------------------------------------------------------ system
Pages == {"home", "dashboard", "detail", "admin"}

InitWith(repeats) ==
  /\ page \in Pages
  /\ taskId \in (IF page = "detail" THEN {1, 2} ELSE {0})
  /\ inst = 0
  /\ user = Null /\ authLoading = TRUE
  /\ token \in {Null, <<ValidToken>>}
  /\ tasks = <<>>
  /\ title = <<>> /\ description = "" /\ priority = "medium" /\ dueDate = ""
  /\ error = ""
  /\ tasksLoading = TRUE /\ showCreateForm = FALSE /\ filterStatus = "all"
  /\ showEditModal = FALSE /\ editingTask = Null
  /\ editTitle = <<>> /\ editDescription = "" /\ editPriority = "medium"
  /\ editDueDate = ""
  /\ task = Null /\ loading = TRUE /\ isEditing = FALSE
  /\ users = <<>> /\ activeTab = "users" /\ dataLoading = TRUE
  /\ net = <<>> /\ nreq = 0 /\ ntyped = 0 /\ nmut = 0 /\ nrep = repeats
  /\ failed = FALSE /\ late = FALSE
  /\ srvTasks = <<InitTask(1, SessionUserId, <<"a">>), InitTask(2, OtherUserId, <<"b">>)>>
  /\ srvRole \in {[k \in {SessionUserId, OtherUserId} |-> IF k = SessionUserId THEN r ELSE "user"] : r \in Roles}
  /\ srvNextId = 3
  /\ srvTokenOk = TRUE

\* the user clicks each control once
Init == InitWith(0)

\* the user double-clicks
InitRepeat == InitWith(MaxRepeats)

Session ==
  \/ ResolveSession
  \/ RedirectEffect
  \/ handleLogout

Dashboard ==
  \/ ToggleCreateForm
  \/ CancelCreate
  \/ \E v \in Titles : SetTitle(v)
  \/ \E v \in Descriptions : SetDescription(v)
  \/ \E v \in Priorities : SetPriority(v)
  \/ \E v \in DueDates : SetDueDate(v)
  \/ \E v \in Filters : SetFilterStatus(v)
  \/ handleCreateTask
  \/ \E k \in 1..Len(tasks) : handleOpenEdit(k)
  \/ CancelEdit
  \/ handleSaveEdit
  \/ \E k \in 1..Len(tasks), st \in Statuses : handleUpdateStatus(k, st)
  \/ \E k \in 1..Len(tasks) : handleDeleteTask(k)

EditInputs ==
  \/ \E v \in Titles : SetEditTitle(v)
  \/ \E v \in Descriptions : SetEditDescription(v)
  \/ \E v \in Priorities : SetEditPriority(v)
  \/ \E v \in DueDates : SetEditDueDate(v)

Detail ==
  \/ StartEditing
  \/ CancelEditing
  \/ handleSaveEditDetail
  \/ \E st \in Statuses : handleUpdateStatusDetail(st)
  \/ handleDeleteTaskDetail

Admin ==
  \/ \E v \in {"users", "tasks"} : SetActiveTab(v)
  \/ \E k \in 1..Len(users) : handlePromoteUser(k)
  \/ \E k \in 1..Len(tasks) : handleDeleteTaskAdmin(k)

Backend ==
  \/ \E m \in DOMAIN net : ServerAccept(m)
  \/ \E m \in DOMAIN net : ServerRefuse(m)
  \/ \E m \in DOMAIN net : NetworkError(m)
  \/ TokenExpires
  \/ RoleRevoked

Delivery ==
  \/ \E m \in DOMAIN net : fetchTasksDone(m)
  \/ \E m \in DOMAIN net : handleCreateTaskDone(m)
  \/ \E m \in DOMAIN net : handleSaveEditDone(m)
  \/ \E m \in DOMAIN net : handleUpdateStatusDone(m)
  \/ \E m \in DOMAIN net : handleDeleteTaskDone(m)
  \/ \E m \in DOMAIN net : fetchTaskDone(m)
  \/ \E m \in DOMAIN net : handleSaveEditDetailDone(m)
  \/ \E m \in DOMAIN net : handleUpdateStatusDetailDone(m)
  \/ \E m \in DOMAIN net : handleDeleteTaskDetailDone(m)
  \/ \E m \in DOMAIN net : fetchDataDone(m)
  \/ \E m \in DOMAIN net : handlePromoteUserDone(m)
  \/ \E m \in DOMAIN net : handleDeleteTaskAdminDone(m)

Next == Session \/ Dashboard \/ EditInputs \/ Detail \/ Admin \/ Backend \/ Delivery

Spec == Init /\ [][Next]_vars

\* the runs with double clicks, against a backend whose tokens and roles stay
\* as they are
BackendSteady ==
  \/ \E m \in DOMAIN net : ServerAccept(m)
  \/ \E m \in DOMAIN net : ServerRefuse(m)
  \/ \E m \in DOMAIN net : NetworkError(m)

NextRepeat ==
  Session \/ Dashboard \/ EditInputs \/ Detail \/ Admin \/ BackendSteady \/ Delivery

SpecRepeat == InitRepeat /\ [][NextRepeat]_vars

\* the lists a fetch can have delivered: up to MaxListLen tasks of the
\* session user, of any status, in ascending or descending order of id
FetchedLists ==
  UNION {{[k \in 1..n |->
            [InitTask(IF asc THEN k ELSE n + 1 - k, SessionUserId, <<"a">>)
               EXCEPT !.status = st[k]]] :
            st \in [1..n -> Statuses], asc \in BOOLEAN} : n \in 0..MaxListLen}

\* the dashboard of a signed-in user after its first fetch has delivered one
\* of these lists
InitFilter ==
  /\ page = "dashboard" /\ taskId = 0 /\ inst = 0
  /\ user = Some([id |-> SessionUserId, role |-> "user"])
  /\ authLoading = FALSE
  /\ token = <<ValidToken>>
  /\ tasks \in FetchedLists
  /\ title = <<>> /\ description = "" /\ priority = "medium" /\ dueDate = ""
  /\ error = ""
  /\ tasksLoading = FALSE /\ showCreateForm = FALSE /\ filterStatus = "all"
  /\ showEditModal = FALSE /\ editingTask = Null
  /\ editTitle = <<>> /\ editDescription = "" /\ editPriority = "medium"
  /\ editDueDate = ""
  /\ task = Null /\ loading = TRUE /\ isEditing = FALSE
  /\ users = <<>> /\ activeTab = "users" /\ dataLoading = TRUE
  /\ net = <<>> /\ nreq = 1 /\ ntyped = 0 /\ nmut = 0 /\ nrep = 0
  /\ failed = FALSE /\ late = FALSE
  /\ srvTasks = tasks
  /\ srvRole = [k \in {SessionUserId, OtherUserId} |-> "user"]
  /\ srvNextId = Len(tasks) + 1
  /\ srvTokenOk = TRUE

\* the user picks a filter
NextFilter == \E v \in Filters : SetFilterStatus(v)

SpecFilter == InitFilter /\ [][NextFilter]_vars


\* ------------------------------------------------------------------ claims
\* the response to request m is handed to its continuation in this step
Delivered(m) == m \in DOMAIN net /\ net[m].phase = "answered" /\ m \notin DOMAIN net'

\* the requests issued in this step
NewRequests == DOMAIN net' \ DOMAIN net

\* C1: whenever the backend answers a task or admin request with 401 (token
\* rejected), the client forces logout (token and user cleared), redirects
\* to login, and shows no inline error message instead.
C1_TokenRejectedForcesLogout ==
  [][\A m \in DOMAIN net :
       (Delivered(m) /\ net[m].resp.status = 401)
         => (user' = Null /\ token' = Null /\ page' = "login" /\ error' = error)]_vars

\* C2: every request carries "Authorization: Bearer <token>" exactly when a
\* token is in client-local storage at the moment the request is issued; with
\* no token stored the request is on the wire all the same, without the
\* header.
C2_BearerHeaderIffToken ==
  \A m \in DOMAIN net :
    /\ net[m].tok # Null => net[m].hdr = <<"Bearer", net[m].tok[1]>>
    /\ net[m].tok = Null => net[m].hdr = <<>>

\* a request issued with no token stored is on the wire, and another one
\* carries the bearer header
C2_Witness ==
  /\ \E m \in DOMAIN net : net[m].tok = Null /\ net[m].hdr = <<>> /\ net[m].phase = "sent"
  /\ \E m \in DOMAIN net : net[m].hdr = <<"Bearer", ValidToken>>

\* the handlers whose request is a mutation followed by a refetch
DashboardMutators ==
  {"handleCreateTask", "handleSaveEdit", "handleUpdateStatus", "handleDeleteTask"}
DetailMutators == {"detail.handleSaveEdit", "detail.handleUpdateStatus"}
AdminMutators == {"handlePromoteUser", "admin.handleDeleteTask"}

\* the step issues the full refetch that belongs to a mutation of handler src
RefetchIssued(src) ==
  CASE src \in DashboardMutators ->
         \E f \in NewRequests : net'[f].kind = "getAll" /\ net'[f].phase = "sent"
    [] src \in DetailMutators ->
         \E f \in NewRequests :
           net'[f].kind = "getById" /\ net'[f].id = taskId /\ net'[f].phase = "sent"
    [] src \in AdminMutators ->
         /\ \E f \in NewRequests : net'[f].kind = "adminUsers" /\ net'[f].phase = "sent"
         /\ \E f \in NewRequests : net'[f].kind = "adminTasks" /\ net'[f].phase = "sent"
    [] OTHER -> TRUE

\* C3: every successful mutation (create, edit save, status update, delete
\* on the dashboard; edit save and status update on the detail page; promote
\* and force-delete on the admin page) is followed by a full refetch of the
\* collection or entity, and the displayed data is not updated from the
\* mutation's own response.
C3_MutationThenRefetch ==
  [][\A m \in DOMAIN net :
       (/\ Delivered(m) /\ net[m].resp.ok
        /\ net[m].src \in DashboardMutators \cup DetailMutators \cup AdminMutators)
         => (RefetchIssued(net[m].src) /\ UNCHANGED <<tasks, task, users>>)]_vars

\* on the dashboard, a mutation has succeeded and the newest request on the
\* wire is the refetch it issued (the first fetch is the mount's)
C3_Witness ==
  /\ page = "dashboard" /\ ~failed /\ nmut > 0
  /\ nreq - nmut >= 2
  /\ nreq \in DOMAIN net /\ net[nreq].kind = "getAll" /\ net[nreq].phase = "sent"

\* C4: for any sequence of mutations and refetches that all succeed, with
\* the responses delivered in any order, once no request is outstanding the
\* task list the dashboard displays equals the backend's current task list
\* of that user.
C4_QuiescentListMatchesServer ==
  (DashboardShown /\ ~failed /\ DOMAIN net = {})
    => tasks = OwnedBy(srvTasks, SessionUserId)


\* a title that is empty or consists of whitespace only
Blank(t) == \A i \in 1..Len(t) : t[i] = " "

\* C5: submitting the create form, the dashboard's edit modal or the detail
\* page's edit form with an empty or whitespace-only title issues no request,
\* sets the error to 'Title is required', and leaves the form open with its
\* drafts unchanged.
C5_BlankTitleStopsSubmit ==
  [][/\ (handleCreateTask /\ Blank(title))
          => /\ net' = net
             /\ error' = "Title is required"
             /\ showCreateForm' /\ UNCHANGED drafts
     /\ (handleSaveEdit /\ Blank(editTitle))
          => /\ net' = net
             /\ error' = "Title is required"
             /\ showEditModal' /\ editingTask' = editingTask /\ UNCHANGED editBuffers
     /\ (handleSaveEditDetail /\ Blank(editTitle))
          => /\ net' = net
             /\ error' = "Title is required"
             /\ isEditing' /\ UNCHANGED editBuffers]_vars

\* a whitespace-only title has been submitted in an edit form, which is still
\* open and shows the error, and no update is on the wire
C5_Witness ==
  /\ editTitle = <<" ">> /\ error = "Title is required"
  /\ (showEditModal /\ editingTask # Null) \/ isEditing
  /\ \A m \in DOMAIN net : net[m].kind # "update"

\* C6: a status change made through the status selector is sent at once as
\* an update whose payload holds the status field and no other, on the
\* dashboard and on the detail page, whether or not an edit form is open.
C6_StatusOnlyPayload ==
  /\ [][\A st \in Statuses :
          ((\E k \in 1..Len(tasks) : handleUpdateStatus(k, st))
             \/ handleUpdateStatusDetail(st))
            => /\ NewRequests = {nreq + 1}
               /\ net'[nreq + 1].kind = "update"
               /\ net'[nreq + 1].phase = "sent"
               /\ DOMAIN net'[nreq + 1].data = {"status"}
               /\ net'[nreq + 1].data.status = st]_vars
  /\ [](nmut < MaxMutations =>
          /\ (DetailShown /\ isEditing) =>
               \A st \in Statuses \ {task[1].status} :
                 ENABLED handleUpdateStatusDetail(st)
          /\ (CardsShown /\ ModalShown) =>
               \A k \in 1..Len(filteredTasks) :
                 \A st \in Statuses \ {filteredTasks[k].status} :
                   ENABLED handleUpdateStatus(k, st))

\* an edit form is open with an unsaved change while a status-only update
\* made through the selector is on the wire, unanswered
C6_Witness ==
  /\ \E m \in DOMAIN net :
       /\ net[m].src \in {"handleUpdateStatus", "detail.handleUpdateStatus"}
       /\ net[m].phase = "sent"
       /\ DOMAIN net[m].data = {"status"}
  /\ (showEditModal /\ editingTask # Null) \/ isEditing
  /\ ntyped > 0

\* the backend carries out request m in this step
Accepted(m) ==
  /\ m \in DOMAIN net /\ net[m].phase = "sent"
  /\ m \in DOMAIN net' /\ net'[m].phase = "answered" /\ net'[m].resp.ok

\* the task with id i of a task list
TaskIn(s, i) == s[CHOOSE k \in 1..Len(s) : s[k].id = i]

\* C7: against a backend that leaves omitted fields unchanged: a status
\* change gives the task the new status and leaves its title, description,
\* priority and due_date as they were; a full-field edit save leaves its
\* status as it was (the edit payload never carries status).
C7_OmittedFieldsUnchanged ==
  [][\A m \in DOMAIN net :
       (Accepted(m) /\ net[m].kind = "update")
         => LET before == TaskIn(srvTasks, net[m].id)
                after == TaskIn(srvTasks', net[m].id)
            IN /\ net[m].src \in {"handleUpdateStatus", "detail.handleUpdateStatus"}
                    => /\ after.status = net[m].data.status
                       /\ after.title = before.title
                       /\ after.description = before.description
                       /\ after.priority = before.priority
                       /\ after.due_date = before.due_date
               /\ net[m].src \in {"handleSaveEdit", "detail.handleSaveEdit"}
                    => /\ after.status = before.status
                       /\ "status" \notin DOMAIN net[m].data]_vars

\* after a status change and the fetch that follows it, the view shows task
\* 1 completed with the title, description, priority and due date it had
C7_Witness ==
  /\ nmut = 1 /\ ~failed /\ DOMAIN net = {}
  /\ \/ /\ page = "dashboard" /\ Len(tasks) = 1
        /\ tasks[1] = [InitTask(1, SessionUserId, <<"a">>) EXCEPT !.status = "completed"]
     \/ /\ page = "detail"
        /\ task = Some([InitTask(1, SessionUserId, <<"a">>) EXCEPT !.status = "completed"])

SaveHandlers == {"handleCreateTask", "handleSaveEdit", "detail.handleSaveEdit"}

SaveFallback(src) ==
  IF src = "handleCreateTask" THEN "Failed to create task" ELSE "Failed to update task"

formState == <<showCreateForm, showEditModal, editingTask, isEditing>>

\* C8: when a save (create, dashboard edit, detail edit) fails at the
\* backend, the view stays as it is: the form or modal is not closed, the
\* drafts and edit buffers keep their values, no refetch is issued, and the
\* error shown is a non-empty message: the backend's error string when the
\* response carries one, else the fixed fallback text.
C8_FailedSaveKeepsEditing ==
  [][\A m \in DOMAIN net :
       (Delivered(m) /\ net[m].src \in SaveHandlers /\ ~net[m].resp.ok /\ Live(m))
         => /\ UNCHANGED <<formState, drafts, editBuffers>>
            /\ NewRequests = {}
            /\ error' \notin {"", Undefined}
            /\ error' = IF net[m].resp.err \in {"", Undefined}
                        THEN SaveFallback(net[m].src) ELSE net[m].resp.err]_vars

\* a save has failed and its response carried no usable error string: the
\* form is still open after a typed change and the fallback text is shown
C8_Witness ==
  /\ failed /\ ntyped > 0 /\ DOMAIN net = {}
  /\ \/ showCreateForm /\ title # <<>> /\ error = "Failed to create task"
     \/ showEditModal /\ editingTask # Null /\ error = "Failed to update task"
     \/ isEditing /\ error = "Failed to update task"

\* C9: when a save succeeds the local edit buffer is discarded and a refetch
\* is issued: after a create the drafts are '', '', 'medium', '' and the
\* create form is hidden; after a dashboard edit the modal is closed and
\* editingTask is null; after a detail edit the page leaves edit mode.
C9_SucceededSaveResets ==
  [][\A m \in DOMAIN net :
       (Delivered(m) /\ net[m].src \in SaveHandlers /\ net[m].resp.ok)
         => /\ RefetchIssued(net[m].src)
            /\ (Live(m) /\ net[m].src = "handleCreateTask")
                 => /\ title' = <<>> /\ description' = "" /\ priority' = "medium"
                    /\ dueDate' = ""
                    /\ ~showCreateForm'
            /\ (Live(m) /\ net[m].src = "handleSaveEdit")
                 => ~showEditModal' /\ editingTask' = Null
            /\ (Live(m) /\ net[m].src = "detail.handleSaveEdit")
                 => ~isEditing']_vars

\* a create with a typed title has succeeded: the task exists at the
\* backend, the drafts are back at their defaults, the form is hidden and the
\* refetch is on the wire
C9_Witness ==
  /\ page = "dashboard" /\ srvNextId > 3 /\ ntyped > 0
  /\ title = <<>> /\ description = "" /\ priority = "medium" /\ dueDate = ""
  /\ ~showCreateForm
  /\ nreq \in DOMAIN net /\ net[nreq].kind = "getAll" /\ net[nreq].phase = "sent"

\* C10: the edit buffers are independent copies: changing an edit buffer
\* never changes the fetched task or task list the view holds; within one
\* mounted view the fetched data changes only when a fetch response is
\* applied.
C10_FetchedDataChangesOnlyByFetch ==
  [][(inst' = inst /\ <<tasks, task, users>>' # <<tasks, task, users>>)
       => \E m \in DOMAIN net :
            /\ Delivered(m) /\ net[m].resp.ok /\ Live(m)
            /\ net[m].src \in {"fetchTasks", "fetchTask", "fetchData"}]_vars

\* an edit buffer differs from the field of the fetched task it was copied
\* from, and the fetched task still is what the backend holds
C10_Witness ==
  /\ ntyped > 0
  /\ \/ /\ showEditModal /\ editingTask # Null
        /\ editTitle # editingTask[1].title
        /\ \E k \in 1..Len(tasks) : tasks[k] = editingTask[1] /\ tasks[k] = TaskIn(srvTasks, tasks[k].id)
     \/ /\ isEditing /\ task # Null
        /\ editTitle # task[1].title
        /\ task[1] = TaskIn(srvTasks, task[1].id)

\* the response delivered in this step is that of a fetch issued by the
\* continuation of handler src
RefetchOf(m, src) ==
  /\ net[m].src \in {"fetchTasks", "fetchTask", "fetchData"}
  /\ net[m].why # Null /\ net[m].why[1].src = src

\* C11: on the task-detail page a status change made in edit mode leaves the
\* edit-mode flag and the unsaved edit buffers (title, description, priority,
\* due date) as they were, both when the status update completes and when
\* the refetch that follows it completes.
C11_StatusChangeKeepsEdits ==
  [][\A m \in DOMAIN net :
       (/\ Delivered(m) /\ Live(m) /\ net[m].resp.ok /\ isEditing
        /\ \/ net[m].src = "detail.handleUpdateStatus"
           \/ RefetchOf(m, "detail.handleUpdateStatus"))
         => UNCHANGED <<isEditing, editBuffers>>]_vars
GatedPages == {"dashboard", "detail", "admin"}

\* a gated page renders its content
ProtectedShown == DashboardShown \/ DetailShown \/ AdminShown

Unauthenticated == ~authLoading /\ user = Null

C13_ForbiddenHidesAdminPanel ==
  [][\A m \in DOMAIN net :
       (/\ Delivered(m) /\ Live(m) /\ page = "admin"
        /\ IsAdminKind(net[m].kind) /\ net[m].resp.status = 403)
         => ~AdminShown']_vars
\* the message each handler's catch block sets when the response carries no
\* usable error string
CatchText(src) ==
  CASE src = "fetchTasks" -> "Failed to load tasks"
    [] src = "handleCreateTask" -> "Failed to create task"
    [] src = "handleSaveEdit" -> "Failed to update task"
    [] src = "handleUpdateStatus" -> "Failed to update task status"
    [] src = "handleDeleteTask" -> "Failed to delete task"
    [] src = "fetchTask" -> "Failed to load task details"
    [] src = "detail.handleSaveEdit" -> "Failed to update task"
    [] src = "detail.handleUpdateStatus" -> "Failed to update status"
    [] src = "detail.handleDeleteTask" -> "Failed to delete task"
    [] src = "fetchData" -> "Failed to load data"
    [] src = "handlePromoteUser" -> "Failed to promote user"
    [] src = "admin.handleDeleteTask" -> "Failed to delete task"

\* C14: every failure of an API call made by a view (load, create, update,
\* status change, delete, promote, force-delete), whatever the failing
\* response, is caught in the handler that made the call and becomes one
\* message string in that view's error state: the view stays mounted, issues
\* no further request, and shows a non-empty message (the backend's error
\* string where the handler reads it, else the handler's fixed text).
C14_FailureBecomesMessage ==
  [][\A m \in DOMAIN net :
       (Delivered(m) /\ ~net[m].resp.ok /\ Live(m))
         => /\ error' \notin {"", Undefined}
            /\ error' \in {CatchText(net[m].src), net[m].resp.err}
            /\ UNCHANGED <<session, router>>
            /\ NewRequests = {}]_vars

\* a load, a status change and a promotion have each been turned into their
\* view's message after a failed call, nothing left on the wire
C14_Witness ==
  /\ failed /\ DOMAIN net = {}
  /\ error \in {"Failed to load task details", "Failed to update status",
                "Failed to promote user", "Failed to load data", "Task error"}
  /\ page \in {"detail", "admin"}
Fetchers == {"fetchTasks", "fetchTask", "fetchData"}

\* C15: a fetch response (success or failure) that arrives after the view
\* that issued the fetch was unmounted is discarded: it changes no component
\* state (task data, loading flags, error), no session or route, and issues
\* nothing.
C15_LateFetchResultDiscarded ==
  [][\A m \in DOMAIN net :
       (Delivered(m) /\ net[m].src \in Fetchers /\ net[m].inst # inst)
         => /\ UNCHANGED <<component, session, router>>
            /\ NewRequests = {}]_vars

\* a fetch response has been handed to the continuation of an unmounted
\* view, and another view is mounted in its place
C15_Witness ==
  late /\ inst > 0 /\ page \in {"login", "dashboard"}
\* a collection fetch of the mounted page is outstanding
CollectionFetchOutstanding ==
  \E m \in DOMAIN net : net[m].src \in {"fetchTasks", "fetchData"} /\ Live(m)

\* C16: whenever a collection fetch issued by the mounted dashboard or admin
\* page is outstanding, that page's data-loading flag is true, also when
\* several fetches overlap; the flag is false only when none is outstanding.
C16_LoadingWhileFetchOutstanding ==
  /\ (page = "dashboard" /\ CollectionFetchOutstanding) => tasksLoading
  /\ (page = "admin" /\ CollectionFetchOutstanding) => dataLoading
\* the step is a submission: a mutating handler ran up to its await
Submission == nmut' # nmut \/ nrep' # nrep

\* the newest request is an unanswered call of handler src from the mounted
\* view, and the user is about to click again
ClickedOnce(src) ==
  /\ nreq \in DOMAIN net /\ net[nreq].phase = "sent"
  /\ net[nreq].src = src /\ net[nreq].inst = inst
  /\ nmut >= MaxMutations /\ nrep > 0

\* the step adds one request, equal to the newest one but for its number
SecondRequest ==
  /\ NewRequests = {nreq + 1}
  /\ net'[nreq + 1] = net[nreq]

\* C17: mutations from the same client are not deduplicated: every
\* submission (create, update, status change, delete, promote) issues exactly
\* one request and withdraws none, so requests sent equal submissions; a
\* submission repeated while the first is still in flight is accepted and
\* issues a second request with the same target and payload.
C17_NoDeduplication ==
  /\ [][Submission
          => /\ NewRequests = {nreq + 1}
             /\ net'[nreq + 1].phase = "sent"
             /\ \A m \in DOMAIN net : m \in DOMAIN net' /\ net'[m] = net[m]]_vars
  /\ []((ClickedOnce("handleCreateTask") /\ DashboardShown /\ showCreateForm
            /\ net[nreq].data = CreatePayload)
          => ENABLED (handleCreateTask /\ SecondRequest))
  /\ []((ClickedOnce("handleSaveEdit") /\ ModalShown
            /\ net[nreq].data = EditPayload /\ net[nreq].id = editingTask[1].id)
          => ENABLED (handleSaveEdit /\ SecondRequest))
  /\ [](ClickedOnce("handleUpdateStatus")
          => \A k \in 1..Len(filteredTasks) :
               (/\ CardsShown /\ filteredTasks[k].id = net[nreq].id
                /\ filteredTasks[k].status # net[nreq].data.status)
                 => ENABLED (handleUpdateStatus(k, net[nreq].data.status) /\ SecondRequest))
  /\ [](ClickedOnce("handleDeleteTask")
          => \A k \in 1..Len(filteredTasks) :
               (CardsShown /\ filteredTasks[k].id = net[nreq].id)
                 => ENABLED (handleDeleteTask(k) /\ SecondRequest))
  /\ [](ClickedOnce("handlePromoteUser")
          => \A k \in 1..Len(users) :
               (/\ AdminShown /\ activeTab = "users" /\ ~dataLoading
                /\ users[k].id = net[nreq].id /\ users[k].role # "admin")
                 => ENABLED (handlePromoteUser(k) /\ SecondRequest))

\* two create requests with the same payload are on the wire, neither
\* answered: the create form was submitted twice before the first response
C17_Witness ==
  \E m1, m2 \in DOMAIN net :
    /\ m1 # m2
    /\ net[m1].kind = "create" /\ net[m2].kind = "create"
    /\ net[m1].data = net[m2].data
    /\ net[m1].phase = "sent" /\ net[m2].phase = "sent"
\* C18: a create submitted with a non-empty title carries exactly the
\* drafted title, description, priority and due_date and no status; when the
\* create has succeeded and the refetch it triggers completes, the displayed
\* list holds the new task with status 'pending' and the title, description,
\* priority and due_date that were sent.
C18_CreatedTaskShown ==
  /\ [][(handleCreateTask /\ ~TitleMissing(title))
          => /\ NewRequests = {nreq + 1}
             /\ net'[nreq + 1].kind = "create"
             /\ DOMAIN net'[nreq + 1].data = {"title", "description", "priority", "due_date"}
             /\ net'[nreq + 1].data.title = title
             /\ net'[nreq + 1].data.description = description
             /\ net'[nreq + 1].data.priority = priority
             /\ net'[nreq + 1].data.due_date = dueDate]_vars
  /\ [][\A m \in DOMAIN net :
         (/\ Delivered(m) /\ Live(m) /\ net[m].resp.ok
          /\ RefetchOf(m, "handleCreateTask"))
           => LET sent == net[m].why[1].data
                  newId == net[m].why[1].resp.data[1].id
              IN \E k \in 1..Len(tasks') :
                   /\ tasks'[k].id = newId
                   /\ tasks'[k].status = "pending"
                   /\ tasks'[k].title = sent.title
                   /\ tasks'[k].description = sent.description
                   /\ tasks'[k].priority = sent.priority
                   /\ tasks'[k].due_date = sent.due_date]_vars

\* the dashboard shows, after the refetch, a task the backend created from
\* the form: pending, with a typed title
C18_Witness ==
  /\ DashboardShown /\ ~tasksLoading /\ ~failed /\ DOMAIN net = {}
  /\ \E k \in 1..Len(tasks) :
       /\ tasks[k].id >= 3 /\ tasks[k].status = "pending"
       /\ tasks[k].title # <<>> /\ tasks[k].priority = "medium"
\* the task passes the selected filter
Matches(t) == filterStatus = "all" \/ t.status = filterStatus

\* C19: the tasks displayed on the dashboard are exactly the tasks of the
\* fetched list whose status matches the filter (all of them for 'all'), in
\* the order the backend delivered them: the view does not re-sort.
C19_FilterKeepsDeliveredOrder ==
  LET idx == {k \in 1..Len(tasks) : Matches(tasks[k])}
      nth(j) == CHOOSE k \in idx : Cardinality({i \in idx : i < k}) = j - 1
  IN /\ Len(filteredTasks) = Cardinality(idx)
     /\ \A j \in 1..Len(filteredTasks) : filteredTasks[j] = tasks[nth(j)]

\* a status filter is selected that hides part of a fetched list and shows
\* two tasks that the backend delivered in descending order of id
C19_Witness ==
  /\ filterStatus # "all"
  /\ Len(filteredTasks) = 2 /\ Len(tasks) = 3
  /\ filteredTasks[1].id > filteredTasks[2].id
\* C20: role elevation is one-directional and idempotent: whatever is done
\* on the admin page, also promoting the same user twice from a list that
\* still shows the old role, no role goes from admin back to user; a
\* promotion the backend carries out leaves the target admin and touches no
\* other role, also when the target already is admin; and Promote is offered
\* only on rows displayed with a role other than admin, for that row's user.
C20_PromotionOneWay ==
  /\ [][\A u \in DOMAIN srvRole : srvRole[u] = "admin" => srvRole'[u] = "admin"]_vars
  /\ [][\A m \in DOMAIN net :
         (Accepted(m) /\ net[m].kind = "promote")
           => /\ srvRole'[net[m].id] = "admin"
              /\ \A u \in DOMAIN srvRole \ {net[m].id} : srvRole'[u] = srvRole[u]]_vars
  /\ [][\A k \in 1..Len(users) :
         handlePromoteUser(k)
           => /\ users[k].role # "admin"
              /\ net'[nreq + 1].kind = "promote"
              /\ net'[nreq + 1].id = users[k].id]_vars

\* the same user has been promoted twice from the list that showed the old
\* role: both promotions were carried out without an error, the role is admin
C20_Witness ==
  \E m1, m2 \in DOMAIN net :
    /\ m1 # m2
    /\ net[m1].kind = "promote" /\ net[m2].kind = "promote"
    /\ net[m1].id = net[m2].id
    /\ net[m1].phase = "answered" /\ net[m1].resp.ok
    /\ net[m2].phase = "answered" /\ net[m2].resp.ok
    /\ srvRole[net[m1].id] = "admin"

\* C21: logout is a pure local operation: the logout handler of the
\* dashboard, the task-detail page and the admin page issues no request and
\* touches none on the wire, clears token and user, and ends on the login
\* route; it can be carried out whenever its button is rendered, whatever is
\* outstanding or has failed on the network.
C21_LogoutIsLocal ==
  /\ [][handleLogout
          => /\ NewRequests = {} /\ net' = net /\ nreq' = nreq
             /\ user' = Null /\ token' = Null
             /\ page' = "login"
             /\ UNCHANGED server]_vars
  /\ [](ProtectedShown => ENABLED (handleLogout /\ page' = "login"))

\* the login route after a logout made while a request was outstanding: the
\* request is still on the wire, unanswered, and nobody is signed in
C21_Witness ==
  /\ page = "login" /\ user = Null /\ token = Null
  /\ \E m \in DOMAIN net : net[m].phase = "sent" /\ net[m].tok # Null

\* C22: every admin request the admin page issues (list users, list all
\* tasks, promote, force-delete, and the refetch after a mutation) is issued
\* while the session user is non-null with role admin: a non-admin or
\* logged-out session causes no admin request, also when the session changes
\* while an admin mutation is in flight.
C22_AdminRequestsNeedAdminSession ==
  [][\A f \in NewRequests : IsAdminKind(net'[f].kind) => IsAdmin(user')]_vars

\* every handler that awaits a mutation
Mutators ==
  DashboardMutators \cup DetailMutators \cup AdminMutators
    \cup {"detail.handleDeleteTask"}

\* C23: when a mutation (status update, delete, edit save, create, promote,
\* force-delete) fails, its handler issues no refetch and leaves the
\* displayed collection or task, and everything else the view holds, as it
\* was: only the error message changes, to a non-empty text.
C23_FailedMutationChangesOnlyError ==
  [][\A m \in DOMAIN net :
       (Delivered(m) /\ ~net[m].resp.ok /\ net[m].src \in Mutators)
         => /\ NewRequests = {}
            /\ UNCHANGED <<tasks, task, users>>
            /\ UNCHANGED <<drafts, dashOnly, editBuffers, loading, isEditing,
                           activeTab, dataLoading, session, router>>
            /\ Live(m) => error' \notin {"", Undefined}]_vars

\* a status change, a delete or a promotion has failed: the list fetched
\* before it is still displayed, the page shows the handler's message, and
\* nothing is on the wire
C23_Witness ==
  /\ failed /\ nmut > 0 /\ DOMAIN net = {}
  /\ \/ /\ page = "dashboard" /\ ~tasksLoading /\ Len(tasks) = 1
        /\ error \in {"Failed to update task status", "Failed to delete task"}
     \/ /\ page = "admin" /\ ~dataLoading /\ Len(users) = 2 /\ Len(tasks) = 2
        /\ error \in {"Failed to promote user", "Failed to delete task"}

\* fetchData's await is over in this step for the pair of requests m (users)
\* and net[m].grp (tasks), in the mounted admin page
FetchDataSettled(m) ==
  /\ m \in DOMAIN net /\ m \notin DOMAIN net'
  /\ net[m].src = "fetchData" /\ net[m].kind = "adminUsers"
  /\ Live(m)

\* both requests of the pair have been answered successfully
BothSucceeded(m) ==
  /\ net[m].phase = "answered" /\ net[m].resp.ok
  /\ net[net[m].grp].phase = "answered" /\ net[net[m].grp].resp.ok

\* the list a successful response carries ([] for a null body)
Carried(resp) == IF resp.isNull THEN <<>> ELSE resp.data

\* C24: the admin page loads users and tasks atomically: when either of the
\* two list requests fails, the displayed users and tasks stay as they were
\* and the error becomes 'Failed to load data'; when both succeed, both lists
\* are replaced together by what the responses carry and the error is left
\* alone; the lists change in no other way; in every case the data-loading
\* flag ends false.
C24_AdminLoadIsAtomic ==
  /\ [][\A m \in DOMAIN net :
         FetchDataSettled(m)
           => /\ ~dataLoading'
              /\ IF BothSucceeded(m)
                 THEN /\ users' = Carried(net[m].resp)
                      /\ tasks' = Carried(net[net[m].grp].resp)
                      /\ error' = error
                 ELSE /\ UNCHANGED <<users, tasks>>
                      /\ error' = "Failed to load data"]_vars
  /\ [][(page = "admin" /\ inst' = inst /\ <<users, tasks>>' # <<users, tasks>>)
          => \E m \in DOMAIN net : FetchDataSettled(m) /\ BothSucceeded(m)]_vars

\* after a promotion the refetch has failed: the admin page still shows the
\* two lists of the first load, with the load error, and is not loading
C24_Witness ==
  /\ page = "admin" /\ nmut > 0 /\ DOMAIN net = {}
  /\ error = "Failed to load data" /\ ~dataLoading
  /\ Len(users) = 2 /\ Len(tasks) = 2
  /\ srvRole[OtherUserId] = "admin" /\ users[2].role = "user"

\* the edit buffers hold the title, description, priority and due date of
\* task t
BuffersOf(t) ==
  /\ editTitle = t.title
  /\ editDescription = t.description
  /\ editPriority = t.priority
  /\ editDueDate = t.due_date

\* C25: whenever an edit form is opened, its buffers equal the fields of the
\* currently fetched task: on the dashboard for any card, also after an
\* earlier cancelled edit, and on the task-detail page also when edit mode is
\* entered again after a Cancel that followed unsaved changes.
C25_OpenedFormShowsFetchedTask ==
  [][/\ \A k \in 1..Len(tasks) :
          handleOpenEdit(k) => (BuffersOf(filteredTasks[k]))'
     /\ StartEditing => (BuffersOf(task[1]))']_vars

\* C26: the home page routes by session state: while the session is being
\* resolved it pushes no route and stays; once resolved it redirects, to
\* /admin when the user has role admin, to /dashboard for any other
\* signed-in user, to /login when there is no user; it is left in no other
\* way.
C26_HomeRoutesBySession ==
  /\ []((page = "home" /\ authLoading) => ~ENABLED RedirectEffect)
  /\ []((page = "home" /\ ~authLoading) => ENABLED RedirectEffect)
  /\ [][(page = "home" /\ page' # "home")
          => /\ ~authLoading
             /\ user # Null /\ user[1].role = "admin" => page' = "admin"
             /\ user # Null /\ user[1].role # "admin" => page' = "dashboard"
             /\ user = Null => page' = "login"]_vars

\* the admin page mounted by the home page's redirect for a signed-in admin:
\* the first navigation of the run, its two list requests just issued
C26_Witness ==
  /\ page = "admin" /\ inst = 1 /\ IsAdmin(user)
  /\ nreq = 2 /\ DOMAIN net = {1, 2}

\* the number of fetched tasks with status st
Count(st) == Cardinality({k \in 1..Len(tasks) : tasks[k].status = st})

\* C27: in every state of the dashboard the statistics satisfy total =
\* pending + inProgress + completed, total is the length of the fetched list
\* and each count is the number of fetched tasks with that status (the
\* statuses being pending, in_progress, completed): the counts are taken over
\* the full fetched list, whichever status filter is active.
C27_StatsCountFetchedList ==
  page = "dashboard"
    => /\ stats.total = stats.pending + stats.inProgress + stats.completed
       /\ stats.total = Len(tasks)
       /\ stats.pending = Count("pending")
       /\ stats.inProgress = Count("in_progress")
       /\ stats.completed = Count("completed")

\* a filter is active that shows one of three fetched tasks, and the
\* statistics still count one task of each status, three in total
C27_Witness ==
  /\ page = "dashboard" /\ filterStatus = "completed"
  /\ Len(tasks) = 3 /\ Len(filteredTasks) = 1
  /\ stats = [total |-> 3, pending |-> 1, inProgress |-> 1, completed |-> 1]

====
